---- MODULE Spec2Model ----
(***************************************************************************)
(* har-capture: the operation store and worker (package operation), the    *)
(* HTTP handlers (package server) and the capture engine (package capture: *)
(* correlator, event collector, screenshot collector, Capture).            *)
(*                                                                         *)
(* These specifications share the module:                                  *)
(*   SpecStore      - the MemoryStore driven by arbitrary callers          *)
(*   SpecSnapshot   - the same, a caller keeping and writing to a record   *)
(*   SpecServer     - POST/GET handlers, one Worker goroutine per job      *)
(*   SpecCorrelator - the requestStore driven by arbitrary callers         *)
(*   SpecWorker     - operation.Run called with any operation id           *)
(*   SpecWorkerFair - SpecWorker, every call of Run returning              *)
(*   SpecTimings    - buildTimings and totalTime on any response timing    *)
(*   SpecTTFB       - extractTTFB on any list of completed entries         *)
(*   SpecRedirect   - redirectURL on any header map                        *)
(*   SpecCapture    - one Capture run: main goroutine, CDP listener        *)
(*                    goroutine, screenshot goroutines                     *)
(***************************************************************************)
EXTENDS Integers, Sequences, FiniteSets, TLC

VARIABLES
    \* ---- package operation: MemoryStore ----
    ops,        \* MemoryStore.ops: id -> Operation (a function on the created ids)
    clock,      \* time.Now()
    lastCall,   \* the last Store call and what it returned
    held,       \* the *Operation a caller got from Create or Get and still holds
    \* ---- package server / operation.Run ----
    workers,    \* id -> state of the goroutine started by `go operation.Run`
    uploads,    \* the Upload calls made so far, in order: <<id, objectName>>
    httpResp,   \* the last HTTP exchange: the response written (and, for a POST, its request)
    \* ---- package capture: one Capture run ----
    opts,         \* capture.Options of the run: [url, screenshots]
    mainPc,       \* where the goroutine running Capture is
    timedOut,     \* Capture's local timedOut
    collTimedOut, \* what collector.wait's select set its timedOut result to
    result,       \* what Capture returned
    totalExpired, \* totalCtx.Done() is closed (and with it allocCtx, tabCtx)
    lpc,          \* where the CDP listener goroutine is inside its callback
    lItem,        \* the value the listener is passing to collector.send
    evSeq,        \* network events delivered so far (stamps wallTime)
    nLifecycle,   \* lifecycle events delivered so far
    pending,      \* requestStore.pending: RequestID -> pendingRequest
    correlated,   \* every completedEntry correlate has returned, in order
    corrRet,      \* what the last correlate call returned
    resultCh,     \* collector.resultCh: the values buffered in the channel
    pages,        \* wait's pages slice
    entries,      \* wait's entries slice
    onceDone,     \* onceCloser.done
    doneCh,       \* collector.doneCh: "open" or "closed"
    panicked,     \* a goroutine panicked (close of a closed channel)
    tasks,        \* the goroutines screenshotCollector.capture has spawned
    scResults,    \* screenshotCollector.results
    hist,         \* history of the run, read only by the properties
    \* ---- package capture: archive assembly (har.go) ----
    harIn,        \* the *network.ResourceTiming of the response being converted
    harOut,       \* the *har.Timings built from it
    ttfbIn,       \* the []completedEntry extractTTFB is called with
    ttfbOut,      \* the time.Duration it returned
    hdrIn,        \* the network.Headers redirectURL is called with
    hdrOut        \* the string it returned

storeVars == <<ops, clock, lastCall, held>>
serverVars == <<workers, uploads, httpResp>>
corrVars == <<pending, correlated, corrRet, evSeq>>
collVars == <<resultCh, pages, entries, onceDone, doneCh, panicked>>
scVars == <<tasks, scResults>>
mainVars == <<mainPc, timedOut, collTimedOut, result>>
listenerVars == <<lpc, lItem>>
envVars == <<opts, totalExpired, nLifecycle>>
ttfbVars == <<ttfbIn, ttfbOut>>
hdrVars == <<hdrIn, hdrOut>>
harVars == <<harIn, harOut, ttfbVars, hdrVars>>
captureVars ==
    <<corrVars, collVars, scVars, mainVars, listenerVars, envVars, hist,
      harVars>>
vars == <<storeVars, serverVars, captureVars>>

(***************************************************************************)
(* Bounds                                                                  *)
(***************************************************************************)
MaxOps == 1        \* operations the store holds (SpecStore)
MaxClock == 2      \* readings of time.Now()
MaxCorrCalls == 4  \* addRequest / correlate calls (SpecCorrelator)
MaxOffset == 1     \* largest timing offset (ms) a response carries
MaxEntries == 3    \* completed entries extractTTFB is called with
MaxEvents == 2     \* CDP events the listener is called with in one run
\* make(chan any, 64) in newCollector: the capacity of resultCh, scaled down
\* so that a run within MaxEvents can fill the channel
ResultChCap == 1

OpIds == 1..MaxOps          \* uuid.New(): identifiers, never reused
CallIds == 0..MaxOps        \* what a caller may pass: 0 is an id never issued

(***************************************************************************)
(* package operation: the domain model                                     *)
(***************************************************************************)
StatusPending == "pending"
StatusRunning == "running"
StatusComplete == "complete"
StatusFailed == "failed"

Nil == "nil"
ErrNotFound == "not found"

\* an operation created already running
NewOperation_Running(id, url, now) ==
    [id |-> id, status |-> StatusRunning, url |-> url,
     createdAt |-> now, updatedAt |-> now,
     ttfb |-> 0, timedOut |-> FALSE, artefacts |-> <<>>, error |-> ""]

\* &Operation{ID, Status: StatusPending, URL, CreatedAt: now, UpdatedAt: now};
\* the other fields hold Go's zero values.
NewOperation(id, url, now) ==
    [id |-> id, status |-> StatusPending, url |-> url,
     createdAt |-> now, updatedAt |-> now,
     ttfb |-> 0, timedOut |-> FALSE, artefacts |-> <<>>, error |-> ""]

\* MemoryStore.Create: s.ops[op.ID] = op
Create(s, id, url, now) == s @@ (id :> NewOperation(id, url, now))

\* Get that finds nothing
Get_NotFound(s, id) == [op |-> Nil, err |-> ErrNotFound]

\* MemoryStore.Get: a copy of the stored record, or "not found"
Get(s, id) ==
    IF id \in DOMAIN s THEN [op |-> s[id], err |-> Nil]
    ELSE [op |-> Nil, err |-> ErrNotFound]

\* The closures MarkRunning, MarkComplete and MarkFailed hand to update, as
\* values: fn.kind names the closure, the other fields are what it captured.
setRunning == [kind |-> "running"]
setComplete(ttfb, cutOff, artefacts) ==
    [kind |-> "complete", ttfb |-> ttfb, timedOut |-> cutOff,
     artefacts |-> artefacts]
setFailed(err) == [kind |-> "failed", error |-> err]

\* fn(op): the assignments the closure makes to the stored record
apply(fn, op) ==
    CASE fn.kind = "running" -> [op EXCEPT !.status = StatusRunning]
      [] fn.kind = "complete" ->
            [op EXCEPT !.status = StatusComplete, !.ttfb = fn.ttfb,
                       !.timedOut = fn.timedOut, !.artefacts = fn.artefacts]
      [] fn.kind = "failed" ->
            [op EXCEPT !.status = StatusFailed, !.error = fn.error]

\* update with the lookup's miss branch lost: an unknown id gets a record
update_Upsert(s, id, fn, now) ==
    LET base == IF id \in DOMAIN s THEN s[id] ELSE NewOperation(id, "", now) IN
    [ops |-> (id :> [apply(fn, base) EXCEPT !.updatedAt = now]) @@ s,
     err |-> Nil]

\* MemoryStore.update: look the id up, apply fn, refresh UpdatedAt
update(s, id, fn, now) ==
    IF id \notin DOMAIN s THEN [ops |-> s, err |-> ErrNotFound]
    ELSE [ops |-> [s EXCEPT ![id] = [apply(fn, s[id]) EXCEPT !.updatedAt = now]],
          err |-> Nil]

\* MarkFailed that records nothing
MarkFailed_Noop(s, id, err, now) ==
    [ops |-> s, err |-> IF id \in DOMAIN s THEN Nil ELSE ErrNotFound]

\* MarkRunning whose closure forgets the status assignment
MarkRunning_NoStatus(s, id, now) ==
    [ops |-> s, err |-> IF id \in DOMAIN s THEN Nil ELSE ErrNotFound]

MarkRunning(s, id, now) == update(s, id, setRunning, now)
MarkComplete(s, id, ttfb, cutOff, artefacts, now) ==
    update(s, id, setComplete(ttfb, cutOff, artefacts), now)
MarkFailed(s, id, err, now) == update(s, id, setFailed(err), now)

(***************************************************************************)
(* package capture: the state a Capture call starts from                   *)
(***************************************************************************)
NoOptions == [url |-> "", screenshots |-> FALSE]
NoResult == [status |-> "running"]
NoItem == [kind |-> "none"]
NoHist ==
    [firstSignal |-> "none",  \* which of markDone / deadline came first
     bufAtSignal |-> <<>>,    \* resultCh when that first signal came
     nMarkDone |-> 0,         \* markDone calls so far
     doneAtWait |-> FALSE,    \* doneCh was closed when wait reached its select
     docsSeen |-> <<>>,       \* a Page per document request onRequest has seen
     cutCorrelated |-> <<>>,  \* at the deadline: entries correlated so far
     cutDocs |-> <<>>,        \* at the deadline: docsSeen
     beforeWait |-> {},       \* tasks dispatched before sc.wait was called
     navErr |-> "none"]       \* what chromedp.Run(navCtx, ...) returned

\* a response without timing (Response.Timing == nil), and no har.Timings yet
NoTiming == [present |-> FALSE]
NotBuilt == [built |-> FALSE]

InitCaptureVars(o) ==
    /\ harIn = NoTiming
    /\ harOut = NotBuilt
    /\ ttfbIn = <<>>
    /\ ttfbOut = NotBuilt
    /\ hdrIn = <<>>
    /\ hdrOut = NotBuilt
    /\ opts = o
    /\ mainPc = "start"
    /\ timedOut = FALSE
    /\ collTimedOut = FALSE
    /\ result = NoResult
    /\ totalExpired = FALSE
    /\ lpc = "idle"
    /\ lItem = NoItem
    /\ evSeq = 0
    /\ nLifecycle = 0
    /\ pending = <<>>
    /\ correlated = <<>>
    /\ corrRet = [seq |-> 0, requestID |-> "", ok |-> FALSE, entry |-> NoItem]
    /\ resultCh = <<>>
    /\ pages = <<>>
    /\ entries = <<>>
    /\ onceDone = FALSE
    /\ doneCh = "open"
    /\ panicked = FALSE
    /\ tasks = <<>>
    /\ scResults = <<>>
    /\ hist = NoHist

\* What a caller holds after Create or Get: a *Operation. Create returns op,
\* the pointer it has just put into s.ops ("stored": the caller's record IS
\* the store's). Get returns &copy with copy := *op: a struct of its own whose
\* Artefacts slice header still points at the stored record's backing array
\* (shared) when there is one.
createReturn(id) == [kind |-> "stored", id |-> id]
getReturn(s, id) ==
    [kind |-> "copy", id |-> id, op |-> s[id],
     shared |-> s[id].artefacts # <<>>]

\* the record a held pointer points at
deref(s, h) == IF h.kind = "stored" THEN s[h.id] ELSE h.op

\* MarkComplete's op.Artefacts = artefacts gives the stored record another
\* backing array: a copy handed out before keeps the old one to itself
rebind(h, id, err) ==
    IF h.kind = "copy" /\ h.id = id /\ err = Nil
    THEN [h EXCEPT !.shared = FALSE] ELSE h

\* the caller's  op.Status = st  through the pointer it holds
writeStatus(s, h, st) ==
    IF h.kind = "stored"
    THEN [ops |-> [s EXCEPT ![h.id].status = st], held |-> h]
    ELSE [ops |-> s, held |-> [h EXCEPT !.op.status = st]]

\* the caller's  op.Artefacts[0] = a  through the pointer it holds
writeArtefact(s, h, a) ==
    IF h.kind = "stored"
    THEN [ops |-> [s EXCEPT ![h.id].artefacts[1] = a], held |-> h]
    ELSE [ops |-> IF h.shared THEN [s EXCEPT ![h.id].artefacts[1] = a] ELSE s,
          held |-> [h EXCEPT !.op.artefacts[1] = a]]

(***************************************************************************)
(* SpecStore: the store's five methods called in any order by any caller   *)
(***************************************************************************)
Urls == {"http://a"}
TTFBs == {50}
ArtefactLists == {<<>>, <<"har">>}
Errors == {"capture: boom"}

NoCall == [op |-> "none", id |-> 0, err |-> Nil]
NoHandle == [kind |-> "none"]

InitStoreVars ==
    /\ ops = <<>>
    /\ clock = 0
    /\ lastCall = NoCall
    /\ held = NoHandle
    /\ workers = <<>>
    /\ uploads = <<>>
    /\ httpResp = [status |-> 0]

InitStore == InitStoreVars /\ InitCaptureVars(NoOptions)

Tick ==
    /\ clock < MaxClock
    /\ clock' = clock + 1
    /\ UNCHANGED <<ops, lastCall, serverVars, captureVars, held>>

StoreCreate ==
    \E id \in OpIds \ DOMAIN ops, url \in Urls :
        /\ ops' = Create(ops, id, url, clock)
        /\ lastCall' = [op |-> "create", id |-> id, err |-> Nil]
        /\ UNCHANGED <<clock, serverVars, captureVars, held>>

StoreGet ==
    \E id \in CallIds :
        /\ lastCall' = [op |-> "get", id |-> id, err |-> Get(ops, id).err]
        /\ UNCHANGED <<ops, clock, serverVars, captureVars, held>>

StoreMarkRunning ==
    \E id \in CallIds :
        LET r == MarkRunning(ops, id, clock) IN
        /\ ops' = r.ops
        /\ lastCall' = [op |-> "markRunning", id |-> id, err |-> r.err]
        /\ UNCHANGED <<clock, serverVars, captureVars, held>>

StoreMarkComplete ==
    \E id \in CallIds, ttfb \in TTFBs, cutOff \in BOOLEAN, a \in ArtefactLists :
        LET r == MarkComplete(ops, id, ttfb, cutOff, a, clock) IN
        /\ ops' = r.ops
        /\ lastCall' = [op |-> "markComplete", id |-> id, err |-> r.err]
        /\ held' = rebind(held, id, r.err)
        /\ UNCHANGED <<clock, serverVars, captureVars>>

StoreMarkFailed ==
    \E id \in CallIds, e \in Errors :
        LET r == MarkFailed(ops, id, e, clock) IN
        /\ ops' = r.ops
        /\ lastCall' = [op |-> "markFailed", id |-> id, err |-> r.err]
        /\ UNCHANGED <<clock, serverVars, captureVars, held>>

NextStore ==
    \/ Tick
    \/ StoreCreate
    \/ StoreGet
    \/ StoreMarkRunning
    \/ StoreMarkComplete
    \/ StoreMarkFailed

SpecStore == InitStore /\ [][NextStore]_vars

(***************************************************************************)
(* Properties of the store                                                 *)
(***************************************************************************)
StatusEdges ==
    {<<StatusPending, StatusRunning>>, <<StatusRunning, StatusComplete>>,
     <<StatusRunning, StatusFailed>>}

MarkCalls == {"markRunning", "markComplete", "markFailed"}

\* C1: whatever sequence of create/markRunning/markComplete/markFailed calls
\* the store receives, an operation's status changes only along
\* pending->running, running->complete, running->failed, and a complete or
\* failed operation keeps its status.
C1_StatusForwardOnly ==
    [][\A id \in DOMAIN ops :
          \/ ops'[id].status = ops[id].status
          \/ <<ops[id].status, ops'[id].status>> \in StatusEdges]_vars

\* C3: markRunning, markComplete, markFailed and get with an identifier the
\* store does not hold return "not found", and the call leaves every stored
\* operation (all fields) as it was.
C3_UnknownIdNotFound ==
    [][(lastCall'.op \in MarkCalls \cup {"get"} /\ lastCall'.id \notin DOMAIN ops)
          => (lastCall'.err = ErrNotFound /\ ops' = ops)]_vars

\* C3 witness: a mark call missed while the store holds a running operation
C3_Witness ==
    /\ lastCall.op \in MarkCalls
    /\ lastCall.err = ErrNotFound
    /\ \E id \in DOMAIN ops : ops[id].status = StatusRunning /\ id # lastCall.id

(***************************************************************************)
(* package server and operation.Run: POST /captures, GET /captures/{id},   *)
(* and the worker goroutine each accepted POST starts                      *)
(***************************************************************************)
StageDocumentLoad == "load"
StageFirstContentfulPaint == "firstContentfulPaint"
StageNetworkIdle == "networkIdle"

\* a ParseDuration that accepts every string
ParseDuration_Lenient(str) == [d |-> 0, err |-> Nil]

\* time.ParseDuration on the duration strings the requests carry (seconds)
ParseDuration(str) ==
    CASE str = "5s" -> [d |-> 5, err |-> Nil]
      [] str = "1m" -> [d |-> 60, err |-> Nil]
      [] OTHER -> [d |-> 0, err |-> "time: invalid duration"]

\* Server.defaultCaptureOptions, as `har serve` sets them from its flags
defaultCaptureOptions ==
    [url |-> "", navigationTimeout |-> 10, totalTimeout |-> 30,
     screenshots |-> FALSE]

\* createCaptureRequest bodies; bodyOK = FALSE is a body json.Decode rejects
CreateRequest(bodyOK, url, nav, total, shots) ==
    [bodyOK |-> bodyOK, url |-> url, navigation_timeout |-> nav,
     total_timeout |-> total, screenshots |-> shots]
CreateRequests ==
    {CreateRequest(FALSE, "", "", "", FALSE),
     CreateRequest(TRUE, "", "5s", "", TRUE),
     CreateRequest(TRUE, "http://a", "bogus", "", FALSE),
     CreateRequest(TRUE, "http://a", "5s", "bogus", TRUE),
     CreateRequest(TRUE, "http://a", "", "", FALSE),
     CreateRequest(TRUE, "http://a", "5s", "", TRUE)}

\* handleCreateCapture up to store.Create: the 400 it answers, or the
\* capture options it built
validateCreate(req) ==
    IF ~req.bodyOK THEN [status |-> 400, error |-> "invalid request body"]
    ELSE IF req.url = "" THEN [status |-> 400, error |-> "url is required"]
    ELSE IF req.navigation_timeout # "" /\ ParseDuration(req.navigation_timeout).err # Nil
         THEN [status |-> 400, error |-> "invalid navigation_timeout"]
    ELSE IF req.total_timeout # "" /\ ParseDuration(req.total_timeout).err # Nil
         THEN [status |-> 400, error |-> "invalid total_timeout"]
    ELSE [status |-> 202,
          opts |-> [url |-> req.url,
                    navigationTimeout |->
                        IF req.navigation_timeout # ""
                        THEN ParseDuration(req.navigation_timeout).d
                        ELSE defaultCaptureOptions.navigationTimeout,
                    totalTimeout |->
                        IF req.total_timeout # ""
                        THEN ParseDuration(req.total_timeout).d
                        ELSE defaultCaptureOptions.totalTimeout,
                    screenshots |-> req.screenshots]]

\* What capture.Capture hands back to the worker (SpecCapture models the run
\* itself): an error, or a Result. ctxDone: the context the worker passed is
\* already cancelled, so the run cannot have ended on networkIdle.
ShotLists ==
    {<<>>, <<StageDocumentLoad, StageNetworkIdle>>}
CaptureOutcomes(o, ctxDone) ==
    {[err |-> "capture: navigation failed"]} \cup
    {[err |-> Nil, ttfb |-> t, timedOut |-> b, screenshots |-> sh] :
        t \in TTFBs, b \in (IF ctxDone THEN {TRUE} ELSE BOOLEAN),
        sh \in (IF o.screenshots THEN ShotLists ELSE {<<>>})}

Digits == <<"0", "1", "2", "3", "4", "5", "6", "7", "8", "9">>
\* fmt.Sprintf("%02d", n) for 0 <= n < 100
Sprintf02d(n) == Digits[(n \div 10) + 1] \o Digits[(n % 10) + 1]

\* screenshot names numbered from i instead of i+1
uploadFileName_ZeroBased(res, idx) ==
    IF idx = 0 THEN "capture.har"
    ELSE "screenshot_" \o Sprintf02d(idx - 1) \o "_" \o res.screenshots[idx] \o ".png"

\* uploadArtefacts: the file name of the idx-th upload (0 is the archive,
\* i >= 1 the i-th screenshot) and the artefact name recorded for it
uploadFileName(res, idx) ==
    IF idx = 0 THEN "capture.har"
    ELSE "screenshot_" \o Sprintf02d(idx) \o "_" \o res.screenshots[idx] \o ".png"
artefactName(res, idx) ==
    IF idx = 0 THEN "har" ELSE "screenshot_" \o res.screenshots[idx]

\* Run: fmt.Errorf("capture: %w", err)
wrapCapture(err) == "capture: " \o err

\* the upload error handed to MarkFailed as it came, without its prefix
wrapUpload_Bare(err) == err

\* Run: fmt.Errorf("upload: %w", err)
wrapUpload(err) == "upload: " \o err

\* what uploader.Upload can fail with
UploadErrors == {"storage failure"}

\* uploadArtefacts: the archive's upload error is returned as it is, a
\* screenshot's as fmt.Errorf("screenshot %d: %w", i+1, err)
uploadErr(idx, err) ==
    IF idx = 0 THEN err ELSE "screenshot " \o Digits[idx + 1] \o ": " \o err

\* result, err of capture.Capture before the call has returned
NoOutcome == [err |-> "not returned"]

\* objectPath; the date component is time.Now() formatted
objectPath(operationID, filename) ==
    [prefix |-> "operations", op |-> operationID, file |-> filename]

InitServer == InitStore

\* POST /captures
HandleCreateCapture ==
    \E req \in CreateRequests :
        LET v == validateCreate(req) IN
        IF v.status # 202
        THEN /\ httpResp' = [status |-> v.status, error |-> v.error,
                             req |-> req]
             /\ UNCHANGED <<storeVars, workers, uploads, captureVars>>
        ELSE \E id \in OpIds \ DOMAIN ops :
             /\ ops' = Create(ops, id, req.url, clock)
             /\ lastCall' = [op |-> "create", id |-> id, err |-> Nil]
             \* go operation.Run(r.Context(), ...)
             /\ workers' = workers @@
                    (id :> [pc |-> "start", ctxDone |-> FALSE, opts |-> v.opts,
                            result |-> NoOutcome, idx |-> 0,
                            artefacts |-> <<>>])
             /\ httpResp' = [status |-> 202, operation_id |-> id,
                             opStatus |-> StatusPending, req |-> req]
             /\ UNCHANGED <<clock, uploads, captureVars, held>>

\* GET /captures/{id}
HandleGetCapture ==
    \E id \in CallIds :
        LET r == Get(ops, id) IN
        /\ httpResp' = IF r.err # Nil THEN [status |-> 404, error |-> ErrNotFound]
                       ELSE [status |-> 200, op |-> r.op]
        /\ lastCall' = [op |-> "get", id |-> id, err |-> r.err]
        /\ UNCHANGED <<ops, clock, workers, uploads, captureVars, held>>

\* The handler has returned (or the client went away): net/http cancels
\* r.Context(), the context the worker was started with.
RequestContextDone ==
    \E id \in DOMAIN workers :
        /\ ~workers[id].ctxDone
        /\ workers' = [workers EXCEPT ![id].ctxDone = TRUE]
        /\ UNCHANGED <<storeVars, uploads, httpResp, captureVars>>

\* Run that goes on to the capture whatever MarkRunning returned
afterMarkRunning_Ignore(err) == "capture"

\* Run: `if err := opts.Store.MarkRunning(...); err != nil { return }`
afterMarkRunning(err) == IF err # Nil THEN "done" ELSE "capture"

\* Run: opts.Store.MarkRunning; on error return
RunMarkRunning ==
    \E id \in DOMAIN workers :
        /\ workers[id].pc = "start"
        /\ LET r == MarkRunning(ops, id, clock) IN
           /\ ops' = r.ops
           /\ lastCall' = [op |-> "markRunning", id |-> id, err |-> r.err]
           /\ workers' = [workers EXCEPT ![id].pc = afterMarkRunning(r.err)]
        /\ UNCHANGED <<clock, uploads, httpResp, captureVars, held>>

\* Run: capture.Capture returned; on error MarkFailed("capture: ...") and return
RunCapture ==
    \E id \in DOMAIN workers :
        /\ workers[id].pc = "capture"
        /\ \E out \in CaptureOutcomes(workers[id].opts, workers[id].ctxDone) :
            IF out.err # Nil
            THEN LET r == MarkFailed(ops, id, wrapCapture(out.err), clock) IN
                 /\ ops' = r.ops
                 /\ lastCall' = [op |-> "markFailed", id |-> id, err |-> r.err]
                 /\ workers' = [workers EXCEPT ![id].pc = "done",
                                               ![id].result = out]
            ELSE /\ workers' = [workers EXCEPT ![id].pc = "upload",
                                               ![id].result = out]
                 /\ UNCHANGED <<ops, lastCall>>
        /\ UNCHANGED <<clock, uploads, httpResp, captureVars, held>>

\* uploadArtefacts: one uploader.Upload call; the first failure makes Run
\* call MarkFailed("upload: ...") and return
RunUpload ==
    \E id \in DOMAIN workers :
        LET w == workers[id] IN
        /\ w.pc = "upload"
        /\ w.idx <= Len(w.result.screenshots)
        /\ uploads' = Append(uploads,
                             objectPath(id, uploadFileName(w.result, w.idx)))
        /\ \E e \in UploadErrors \cup {Nil} :
            IF e = Nil
            THEN /\ workers' = [workers EXCEPT
                        ![id].artefacts = Append(@, artefactName(w.result, w.idx)),
                        ![id].idx = @ + 1]
                 /\ UNCHANGED <<ops, lastCall>>
            ELSE LET r == MarkFailed(ops, id, wrapUpload(uploadErr(w.idx, e)),
                                     clock) IN
                 /\ ops' = r.ops
                 /\ lastCall' = [op |-> "markFailed", id |-> id, err |-> r.err]
                 /\ workers' = [workers EXCEPT ![id].pc = "done",
                                               ![id].artefacts = <<>>]
        /\ UNCHANGED <<clock, httpResp, captureVars, held>>

\* Run: every upload succeeded; MarkComplete with the result's fields
RunMarkComplete ==
    \E id \in DOMAIN workers :
        LET w == workers[id] IN
        /\ w.pc = "upload"
        /\ w.idx > Len(w.result.screenshots)
        /\ LET r == MarkComplete(ops, id, w.result.ttfb, w.result.timedOut,
                                 w.artefacts, clock) IN
           /\ ops' = r.ops
           /\ lastCall' = [op |-> "markComplete", id |-> id, err |-> r.err]
        /\ workers' = [workers EXCEPT ![id].pc = "done"]
        /\ UNCHANGED <<clock, uploads, httpResp, captureVars, held>>

\* time.Now() is held at one reading here: the timestamps are SpecStore's
\* subject, and every worker step reads the same clock.
NextServer ==
    \/ HandleCreateCapture
    \/ HandleGetCapture
    \/ RequestContextDone
    \/ RunMarkRunning
    \/ RunCapture
    \/ RunUpload
    \/ RunMarkComplete

SpecServer == InitServer /\ [][NextServer]_vars

(***************************************************************************)
(* Properties of the server and worker                                     *)
(***************************************************************************)
\* C2: an operation created by POST /captures and driven by its worker,
\* with GET polls interleaved anywhere, enters complete or failed only from
\* running: markRunning precedes markComplete/markFailed for that id.
C2_TerminalOnlyAfterRunning ==
    [][\A id \in DOMAIN ops :
          (ops'[id].status \in {StatusComplete, StatusFailed}
              /\ ops'[id].status # ops[id].status)
          => ops[id].status = StatusRunning]_vars

\* C2 witness: a poll answers 200 with a terminal record
C2_Witness ==
    /\ httpResp.status = 200
    /\ httpResp.op.status \in {StatusComplete, StatusFailed}
    /\ lastCall.op = "get"

(***************************************************************************)
(* package capture: requestStore (the correlator)                          *)
(***************************************************************************)
ReqIds == {"r1", "r2"}                      \* network.RequestID values
ResourceTypeDocument == "Document"
ResourceTypes == {ResourceTypeDocument, "Script"}

\* network.EventRequestWillBeSent / EventResponseReceived, stamped with the
\* order of delivery (WallTime for requests)
RequestEvents(ids, seq) ==
    {[requestID |-> id, type |-> t, wallTime |-> seq] :
        id \in ids, t \in ResourceTypes}
ResponseEvents(ids, seq) == {[requestID |-> id, seq |-> seq] : id \in ids}

\* the pendingRequest literal onRequest builds from the event
pendingRequest(ev) ==
    [requestID |-> ev.requestID, wallTime |-> ev.wallTime,
     resourceType |-> ev.type, pageRef |-> "page_" \o ev.requestID]

\* completedEntry{request, response}
completedEntry(req, ev) == [kind |-> "entry", request |-> req, response |-> ev]

\* addRequest that keeps the request already pending for the id
addRequest_KeepFirst(p, r) ==
    [id \in DOMAIN p \cup {r.requestID} |->
        IF id \in DOMAIN p THEN p[id] ELSE r]

\* requestStore.addRequest: s.pending[r.requestID] = r
addRequest(p, r) ==
    [id \in DOMAIN p \cup {r.requestID} |->
        IF id = r.requestID THEN r ELSE p[id]]

\* correlate that leaves the matched request in the map
correlate_NoDelete(p, ev) ==
    IF ev.requestID \notin DOMAIN p
    THEN [pending |-> p, ok |-> FALSE, entry |-> NoItem]
    ELSE [pending |-> p, ok |-> TRUE,
          entry |-> completedEntry(p[ev.requestID], ev)]

\* requestStore.correlate: look the RequestID up; on a hit delete it and
\* return the pair
correlate(p, ev) ==
    IF ev.requestID \notin DOMAIN p
    THEN [pending |-> p, ok |-> FALSE, entry |-> NoItem]
    ELSE [pending |-> [id \in DOMAIN p \ {ev.requestID} |-> p[id]],
          ok |-> TRUE,
          entry |-> completedEntry(p[ev.requestID], ev)]

(***************************************************************************)
(* SpecCorrelator: addRequest and correlate called in any order            *)
(***************************************************************************)
InitCorrelator == InitStoreVars /\ InitCaptureVars(NoOptions)

CorrAddRequest ==
    /\ evSeq < MaxCorrCalls
    /\ \E ev \in RequestEvents(ReqIds, evSeq + 1) :
        pending' = addRequest(pending, pendingRequest(ev))
    /\ evSeq' = evSeq + 1
    /\ UNCHANGED <<correlated, corrRet>>
    /\ UNCHANGED <<storeVars, serverVars, harVars, collVars, scVars, mainVars,
                   listenerVars, envVars, hist>>

CorrCorrelate ==
    /\ evSeq < MaxCorrCalls
    /\ \E ev \in ResponseEvents(ReqIds, evSeq + 1) :
        LET r == correlate(pending, ev) IN
        /\ pending' = r.pending
        /\ corrRet' = [seq |-> ev.seq, requestID |-> ev.requestID,
                       ok |-> r.ok, entry |-> r.entry]
        /\ correlated' = IF r.ok THEN Append(correlated, r.entry) ELSE correlated
    /\ evSeq' = evSeq + 1
    /\ UNCHANGED <<storeVars, serverVars, harVars, collVars, scVars, mainVars,
                   listenerVars, envVars, hist>>

NextCorrelator == CorrAddRequest \/ CorrCorrelate

SpecCorrelator == InitCorrelator /\ [][NextCorrelator]_vars

(***************************************************************************)
(* Properties of the correlator                                            *)
(***************************************************************************)
\* C4: each registered pending request is returned by at most one correlate
\* call. A response whose identifier is not pending (never registered, or
\* already consumed) gets "no match", adds no entry to the output and leaves
\* the pending map as it was; a match removes that identifier only.
C4_CorrelateAtMostOnce ==
    /\ [](\A i, j \in 1..Len(correlated) :
            correlated[i].request = correlated[j].request => i = j)
    /\ [][(evSeq' = evSeq + 1 /\ corrRet'.seq = evSeq')
            => LET id == corrRet'.requestID IN
               IF id \in DOMAIN pending
               THEN /\ corrRet'.ok
                    /\ corrRet'.entry.request = pending[id]
                    /\ correlated' = Append(correlated, corrRet'.entry)
                    /\ DOMAIN pending' = DOMAIN pending \ {id}
                    /\ \A o \in DOMAIN pending' : pending'[o] = pending[o]
               ELSE /\ ~corrRet'.ok
                    /\ correlated' = correlated
                    /\ pending' = pending]_vars

\* C4 witness: a second response for a consumed identifier found no match
\* while another identifier was pending
C4_Witness ==
    /\ corrRet.seq = evSeq
    /\ ~corrRet.ok
    /\ \E i \in 1..Len(correlated) :
          correlated[i].request.requestID = corrRet.requestID
    /\ DOMAIN pending # {}

(***************************************************************************)
(* package capture: collector, onceCloser, screenshotCollector             *)
(***************************************************************************)
\* lifecycleOrder
lifecycleOrder ==
    (StageDocumentLoad :> 0) @@ (StageFirstContentfulPaint :> 1) @@
    (StageNetworkIdle :> 2)
LifecycleNames ==
    {StageDocumentLoad, StageFirstContentfulPaint, StageNetworkIdle}

\* har.Page as onRequest builds it
harPage(ev) ==
    [kind |-> "page", id |-> "page_" \o ev.requestID,
     startedDateTime |-> ev.wallTime]

\* collector.accumulate: the type switch on the received value
accumulate(data, ps, es) ==
    CASE data.kind = "page" -> [pages |-> Append(ps, data), entries |-> es]
      [] data.kind = "entry" -> [pages |-> ps, entries |-> Append(es, data)]
      [] OTHER -> [pages |-> ps, entries |-> es]

\* onceCloser.close: close(o.ch) unless done; closing a closed channel panics
close(done, ch) ==
    IF ~done THEN [done |-> TRUE, ch |-> "closed", panic |-> ch = "closed"]
    ELSE [done |-> done, ch |-> ch, panic |-> FALSE]

\* The cases of wait's select that can proceed. Go picks one of them by a
\* uniform pseudo-random choice when more than one can.
selectReady(ch, expired) ==
    (IF ch = "closed" THEN {"done"} ELSE {}) \cup
    (IF expired THEN {"ctx"} ELSE {})

\* Screenshot{Stage, CapturedAt, PNG}; task is the goroutine that took it
Screenshot(stage, task) == [stage |-> stage, task |-> task]

\* screenshotCollector.capture: wg.Add(1) and the goroutine it starts
capture(ts, stage) == Append(ts, [stage |-> stage, st |-> "running"])

\* the goroutine of capture with the error return lost: a failed
\* acquisition appends its empty buffer too
taskFinish_KeepFailed(results, stage, task, ok) ==
    Append(results, Screenshot(stage, task))

\* the goroutine of capture: on error return, else append under sc.mu
taskFinish(results, stage, task, ok) ==
    IF ok THEN Append(results, Screenshot(stage, task)) ELSE results

\* wg.Wait returns when every goroutine added has called wg.Done
wgWait(ts) == \A i \in 1..Len(ts) : ts[i].st # "running"

IsSorted(shots) ==
    \A i \in 1..(Len(shots) - 1) :
        lifecycleOrder[shots[i].stage] <= lifecycleOrder[shots[i + 1].stage]

\* sort.Slice(sc.results, less by lifecycleOrder): not a stable sort, so any
\* ordering of the same elements that is ascending by stage can come out
sortSlice(shots) ==
    {p \in {[i \in 1..Len(shots) |-> shots[f[i]]] :
                f \in Permutations(1..Len(shots))} : IsSorted(p)}

\* buildEntry: the archive entry of a completedEntry
buildEntry(e) ==
    [pageref |-> e.request.pageRef, startedDateTime |-> e.request.wallTime,
     responseSeq |-> e.response.seq]

\* assembleHAR
assembleHAR(ps, es) ==
    [pages |-> ps, entries |-> [i \in 1..Len(es) |-> buildEntry(es[i])]]

\* isTimeoutError that recognises no error as a timeout
isTimeoutError_Never(err) == FALSE

\* isTimeoutError
isTimeoutError(err) ==
    err \in {"context deadline exceeded", "context canceled"}

\* what chromedp.Run(navCtx, ...) can return
NavErrors ==
    {Nil, "context deadline exceeded", "context canceled",
     "net::ERR_NAME_NOT_RESOLVED"}

\* onRequest that emits a Page for every request
onRequest_AlwaysPage(p, ev) ==
    [pending |-> addRequest(p, pendingRequest(ev)), send |-> TRUE,
     item |-> harPage(ev)]

\* onRequest: store.addRequest(pendingRequest{...}), then coll.send(har.Page)
\* if ev.Type == network.ResourceTypeDocument
onRequest(p, ev) ==
    [pending |-> addRequest(p, pendingRequest(ev)),
     send |-> ev.type = ResourceTypeDocument,
     item |-> harPage(ev)]

\* onResponse that sends whatever correlate returned
onResponse_SendUnmatched(p, ev) ==
    LET r == correlate(p, ev) IN
    [pending |-> r.pending, ok |-> r.ok, entry |-> r.entry, send |-> TRUE]

\* onResponse: entry, ok := store.correlate(ev); return if !ok, else
\* coll.send(entry)
onResponse(p, ev) ==
    LET r == correlate(p, ev) IN
    [pending |-> r.pending, ok |-> r.ok, entry |-> r.entry, send |-> r.ok]

\* collector.send: c.resultCh <- v on a channel of capacity ResultChCap; with
\* the buffer full the sender parks until a receive makes room
send(ch, v) ==
    IF Len(ch) < ResultChCap THEN [ch |-> Append(ch, v), parked |-> FALSE]
    ELSE [ch |-> ch, parked |-> TRUE]

(***************************************************************************)
(* SpecCapture: one call of Capture. Three kinds of goroutine run: the     *)
(* caller's (main), the CDP target's, which calls the ListenTarget         *)
(* callback once per event and one event at a time, and one per            *)
(* screenshotCollector.capture.                                            *)
(***************************************************************************)
TabReqIds == {"r1"}     \* request ids of the events the tab delivers

OptionSet == [url : {"", "http://a"}, screenshots : BOOLEAN]

InitCapture == InitStoreVars /\ \E o \in OptionSet : InitCaptureVars(o)

\* what has been handed to send and not yet received: the buffer, then the
\* value of a parked sender
Sent == resultCh \o (IF lpc = "parked" THEN <<lItem>> ELSE <<>>)

\* The callback is registered on tabCtx, a child of totalCtx: chromedp calls
\* it for an event only while that context is alive, and never concurrently.
ListenerCanTakeEvent ==
    /\ mainPc \notin {"start", "returned"}
    /\ ~totalExpired
    /\ lpc = "idle"
    /\ evSeq + nLifecycle < MaxEvents

\* Capture: the URL check
CaptureStart ==
    /\ mainPc = "start"
    /\ IF opts.url = ""
       THEN /\ result' = [status |-> "error",
                          err |-> "capture: URL must not be empty"]
            /\ mainPc' = "returned"
       ELSE /\ mainPc' = "nav"
            /\ result' = result
    /\ UNCHANGED <<timedOut, collTimedOut, corrVars, collVars, scVars,
                   listenerVars, envVars, hist, storeVars, serverVars, harVars>>

\* The total deadline passes (or the caller's context is cancelled):
\* totalCtx.Done() closes; a wait parked in its select takes the ctx case.
TotalDeadline ==
    /\ ~totalExpired
    /\ mainPc # "returned"
    /\ totalExpired' = TRUE
    /\ IF mainPc = "waitBlocked"
       THEN mainPc' = "drain" /\ collTimedOut' = TRUE
       ELSE UNCHANGED <<mainPc, collTimedOut>>
    /\ hist' = [hist EXCEPT
          !.firstSignal = IF @ = "none" THEN "deadline" ELSE @,
          !.bufAtSignal = IF hist.firstSignal = "none" THEN Sent ELSE @,
          !.cutCorrelated = correlated,
          !.cutDocs = hist.docsSeen]
    /\ UNCHANGED <<timedOut, result, corrVars, collVars, scVars, listenerVars,
                   opts, nLifecycle, storeVars, serverVars, harVars>>

\* callback, case *network.EventRequestWillBeSent: onRequest up to its send
EventRequestWillBeSent ==
    /\ ListenerCanTakeEvent
    /\ \E ev \in RequestEvents(TabReqIds, evSeq + 1) :
        LET r == onRequest(pending, ev) IN
        /\ pending' = r.pending
        /\ IF r.send
           THEN lpc' = "send" /\ lItem' = r.item
           ELSE UNCHANGED <<lpc, lItem>>
        /\ hist' = IF ev.type = ResourceTypeDocument
                   THEN [hist EXCEPT !.docsSeen = Append(@, harPage(ev))]
                   ELSE hist
    /\ evSeq' = evSeq + 1
    /\ UNCHANGED <<correlated, corrRet, collVars, scVars, mainVars, envVars,
                   storeVars, serverVars, harVars>>

\* callback, case *network.EventResponseReceived: onResponse up to its send
EventResponseReceived ==
    /\ ListenerCanTakeEvent
    /\ \E ev \in ResponseEvents(TabReqIds, evSeq + 1) :
        LET r == onResponse(pending, ev) IN
        /\ pending' = r.pending
        /\ corrRet' = [seq |-> ev.seq, requestID |-> ev.requestID,
                       ok |-> r.ok, entry |-> r.entry]
        /\ correlated' = IF r.ok THEN Append(correlated, r.entry)
                         ELSE correlated
        /\ IF r.send
           THEN lpc' = "send" /\ lItem' = r.entry
           ELSE UNCHANGED <<lpc, lItem>>
    /\ evSeq' = evSeq + 1
    /\ UNCHANGED <<collVars, scVars, mainVars, envVars, hist,
                   storeVars, serverVars, harVars>>

\* callback: coll.send(...) at the end of onRequest / onResponse
CollectorSend ==
    /\ lpc = "send"
    /\ LET r == send(resultCh, lItem) IN
       /\ resultCh' = r.ch
       /\ lpc' = IF r.parked THEN "parked" ELSE "idle"
       /\ lItem' = IF r.parked THEN lItem ELSE NoItem
    /\ UNCHANGED <<pages, entries, onceDone, doneCh, panicked, corrVars,
                   scVars, mainVars, envVars, hist, storeVars, serverVars, harVars>>

\* callback, case *page.EventLifecycleEvent: the screenshot dispatch
EventLifecycle ==
    /\ ListenerCanTakeEvent
    /\ \E name \in LifecycleNames :
        /\ tasks' = IF opts.screenshots THEN capture(tasks, name) ELSE tasks
        /\ lpc' = IF name = StageNetworkIdle THEN "markDone" ELSE "idle"
    /\ nLifecycle' = nLifecycle + 1
    /\ UNCHANGED <<lItem, scResults, opts, totalExpired, corrVars, collVars,
                   mainVars, hist, storeVars, serverVars, harVars>>

\* callback, networkIdle: coll.markDone(); a wait parked in its select takes
\* the doneCh case when the channel closes
CollectorMarkDone ==
    /\ lpc = "markDone"
    /\ LET c == close(onceDone, doneCh) IN
       /\ onceDone' = c.done
       /\ doneCh' = c.ch
       /\ panicked' = (panicked \/ c.panic)
       /\ IF mainPc = "waitBlocked" /\ doneCh = "open" /\ c.ch = "closed"
          THEN mainPc' = "drain" /\ collTimedOut' = FALSE
          ELSE UNCHANGED <<mainPc, collTimedOut>>
    /\ lpc' = "idle"
    /\ hist' = [hist EXCEPT
          !.nMarkDone = @ + 1,
          !.firstSignal = IF @ = "none" THEN "done" ELSE @,
          !.bufAtSignal = IF hist.firstSignal = "none" THEN Sent ELSE @]
    /\ UNCHANGED <<lItem, resultCh, pages, entries, timedOut, result,
                   corrVars, scVars, envVars, storeVars, serverVars, harVars>>

\* Capture: chromedp.Run(navCtx, EmulateViewport, Navigate) returns
NavigateReturn ==
    /\ mainPc = "nav"
    /\ \E err \in NavErrors :
        /\ err = Nil => ~totalExpired
        /\ err = "context canceled" => totalExpired
        /\ IF err # Nil /\ ~isTimeoutError(err)
           THEN /\ result' = [status |-> "error",
                              err |-> "capture: navigation failed"]
                /\ mainPc' = "returned"
                /\ timedOut' = timedOut
           ELSE /\ timedOut' = (err # Nil)
                /\ mainPc' = "wait"
                /\ result' = result
        /\ hist' = [hist EXCEPT !.navErr = err]
    /\ UNCHANGED <<collTimedOut, corrVars, collVars, scVars, listenerVars,
                   envVars, storeVars, serverVars, harVars>>

\* collector.wait: the select
WaitSelect ==
    /\ mainPc = "wait"
    /\ LET ready == selectReady(doneCh, totalExpired) IN
       IF ready = {}
       THEN mainPc' = "waitBlocked" /\ collTimedOut' = collTimedOut
       ELSE \E c \in ready :
                mainPc' = "drain" /\ collTimedOut' = (c = "ctx")
    /\ hist' = [hist EXCEPT !.doneAtWait = (doneCh = "closed")]
    /\ UNCHANGED <<timedOut, result, corrVars, collVars, scVars, listenerVars,
                   envVars, storeVars, serverVars, harVars>>

\* collector.wait: one turn of `for len(c.resultCh) > 0`; the receive hands
\* the freed slot to a parked sender
DrainReceive ==
    /\ mainPc = "drain"
    /\ Len(resultCh) > 0
    /\ LET a == accumulate(Head(resultCh), pages, entries) IN
       /\ pages' = a.pages
       /\ entries' = a.entries
    /\ IF lpc = "parked"
       THEN /\ resultCh' = Append(Tail(resultCh), lItem)
            /\ lpc' = "idle"
            /\ lItem' = NoItem
       ELSE /\ resultCh' = Tail(resultCh)
            /\ UNCHANGED listenerVars
    /\ UNCHANGED <<onceDone, doneCh, panicked, corrVars, scVars, mainVars,
                   envVars, hist, storeVars, serverVars, harVars>>

\* collector.wait returns; Capture folds the flag and, if cut off with
\* screenshots on, dispatches the final capture, then calls sc.wait
WaitReturn ==
    /\ mainPc = "drain"
    /\ Len(resultCh) = 0
    /\ timedOut' = (timedOut \/ collTimedOut)
    /\ tasks' = IF opts.screenshots /\ timedOut'
                THEN capture(tasks, StageNetworkIdle) ELSE tasks
    /\ hist' = [hist EXCEPT !.beforeWait = 1..Len(tasks')]
    /\ mainPc' = "scWait"
    /\ UNCHANGED <<collTimedOut, result, scResults, corrVars, collVars,
                   listenerVars, envVars, storeVars, serverVars, harVars>>

\* screenshotCollector.wait: sc.wg.Wait()
ScWgWait ==
    /\ mainPc = "scWait"
    /\ wgWait(tasks)
    /\ mainPc' = "scSort"
    /\ UNCHANGED <<timedOut, collTimedOut, result, corrVars, collVars, scVars,
                   listenerVars, envVars, hist, storeVars, serverVars, harVars>>

\* screenshotCollector.wait: sort.Slice(sc.results, ...)
ScSort ==
    /\ mainPc = "scSort"
    /\ scResults' \in sortSlice(scResults)
    /\ mainPc' = "scReturn"
    /\ UNCHANGED <<timedOut, collTimedOut, result, tasks, corrVars, collVars,
                   listenerVars, envVars, hist, storeVars, serverVars, harVars>>

\* screenshotCollector.wait: return sc.results; Capture assembles the Result
CaptureReturn ==
    /\ mainPc = "scReturn"
    /\ result' = [status |-> "ok", har |-> assembleHAR(pages, entries),
                  screenshots |-> scResults, timedOut |-> timedOut]
    /\ mainPc' = "returned"
    /\ UNCHANGED <<timedOut, collTimedOut, corrVars, collVars, scVars,
                   listenerVars, envVars, hist, storeVars, serverVars, harVars>>

\* a capture goroutine: chromedp.Run(ctx, CaptureScreenshot) succeeded (the
\* tab context is alive) and the screenshot is appended
TaskSucceed ==
    /\ ~totalExpired
    /\ mainPc # "returned"
    /\ \E i \in 1..Len(tasks) :
        /\ tasks[i].st = "running"
        /\ scResults' = taskFinish(scResults, tasks[i].stage, i, TRUE)
        /\ tasks' = [tasks EXCEPT ![i].st = "done"]
    /\ UNCHANGED <<corrVars, collVars, mainVars, listenerVars, envVars, hist,
                   storeVars, serverVars, harVars>>

\* a capture goroutine: chromedp.Run returned an error
TaskFail ==
    /\ mainPc # "returned"
    /\ \E i \in 1..Len(tasks) :
        /\ tasks[i].st = "running"
        /\ scResults' = taskFinish(scResults, tasks[i].stage, i, FALSE)
        /\ tasks' = [tasks EXCEPT ![i].st = "failed"]
    /\ UNCHANGED <<corrVars, collVars, mainVars, listenerVars, envVars, hist,
                   storeVars, serverVars, harVars>>

NextCapture ==
    \/ CaptureStart
    \/ TotalDeadline
    \/ EventRequestWillBeSent
    \/ EventResponseReceived
    \/ CollectorSend
    \/ EventLifecycle
    \/ CollectorMarkDone
    \/ NavigateReturn
    \/ WaitSelect
    \/ DrainReceive
    \/ WaitReturn
    \/ ScWgWait
    \/ ScSort
    \/ CaptureReturn
    \/ TaskSucceed
    \/ TaskFail

SpecCapture == InitCapture /\ [][NextCapture]_vars

(***************************************************************************)
(* Properties of the capture run                                           *)
(***************************************************************************)
Range(seq) == {seq[i] : i \in 1..Len(seq)}

\* main has left collector.wait
PostWait == {"scWait", "scSort", "scReturn"}

\* Capture returned a Result, not an error
ReturnedResult == mainPc = "returned" /\ result.status = "ok"

\* C5: when markDone is raised before the deadline scope expires, wait
\* returns timedOut=false, when the deadline scope expires first it returns
\* timedOut=true, and either way it returns every event buffered at that
\* moment.
C5_WaitOutcome ==
    mainPc \in PostWait =>
        /\ hist.firstSignal = "done" => ~collTimedOut
        /\ hist.firstSignal = "deadline" => collTimedOut
        /\ Range(hist.bufAtSignal) \subseteq Range(pages) \cup Range(entries)

\* C6: send never blocks its caller: the listener is never parked in
\* send, whatever the number of events sent before the consumer drains.
C6_SendNeverBlocks == lpc # "parked"

\* C7: a run cut off by the total deadline returns timed_out=true with an
\* entry for every pair correlated before the cutoff and a page for every
\* document request seen before the cutoff.
C7_CutoffKeepsCollected ==
    (ReturnedResult /\ collTimedOut) =>
        /\ result.timedOut
        /\ \A e \in Range(hist.cutCorrelated) :
              buildEntry(e) \in Range(result.har.entries)
        /\ \A p \in Range(hist.cutDocs) : p \in Range(result.har.pages)

\* C8: markDone is idempotent: the first call raises the signal, later calls
\* do nothing and never panic, and a wait started after any number of
\* markDone calls returns timedOut=false.
C8_MarkDoneIdempotent ==
    /\ ~panicked
    /\ hist.nMarkDone > 0 => (onceDone /\ doneCh = "closed")
    /\ (mainPc \in PostWait /\ hist.doneAtWait) => ~collTimedOut

\* C9: the screenshot list placed in the Result is ascending by canonical
\* stage order, for every order in which the capture tasks complete.
C9_ScreenshotsSorted == ReturnedResult => IsSorted(result.screenshots)

\* C10: a failed acquisition adds nothing and raises no error; wait returns
\* only after every task dispatched before it has finished, and the list it
\* returns holds exactly one screenshot for each of those tasks that
\* succeeded, and screenshots of succeeded tasks only.
C10_FailuresSwallowedAllAwaited ==
    /\ \A i \in 1..Len(scResults) :
          /\ scResults[i].task \in 1..Len(tasks)
          /\ tasks[scResults[i].task].st = "done"
          /\ tasks[scResults[i].task].stage = scResults[i].stage
    /\ (mainPc \in {"scSort", "scReturn"} \/ ReturnedResult) =>
          \A t \in hist.beforeWait : tasks[t].st # "running"
    /\ ReturnedResult =>
          /\ \A sh \in Range(result.screenshots) :
                tasks[sh.task].st = "done"
          /\ \A t \in hist.beforeWait :
                tasks[t].st = "done" =>
                    Cardinality({i \in 1..Len(result.screenshots) :
                        result.screenshots[i].task = t}) = 1
    /\ (mainPc = "returned" /\ result.status = "error") =>
          result.err \in {"capture: URL must not be empty",
                          "capture: navigation failed"}

\* a run returned a Result holding the screenshot of a task that succeeded
\* while another task, dispatched before wait, had failed
C10_Witness ==
    /\ ReturnedResult
    /\ \E t \in hist.beforeWait : tasks[t].st = "failed"
    /\ \E t \in hist.beforeWait : tasks[t].st = "done"
    /\ Len(result.screenshots) = 1

\* the run went on from navigation to collector.wait and, if it has
\* returned, returned a Result with TimedOut set
NavGraceful ==
    /\ timedOut
    /\ mainPc \in {"wait", "waitBlocked", "drain", "returned"} \cup PostWait
    /\ mainPc = "returned" => (ReturnedResult /\ result.timedOut)

\* Capture returned an error straight from navigation: no Result, and the
\* collector was never waited on
NavFatal ==
    /\ mainPc = "returned"
    /\ result = [status |-> "error", err |-> "capture: navigation failed"]
    /\ pages = <<>> /\ entries = <<>>
    /\ hist.beforeWait = {}

C12_TimedOutIffTotalDeadline ==
    ReturnedResult =>
        /\ hist.firstSignal = "done" => ~result.timedOut
        /\ hist.firstSignal = "deadline" => result.timedOut

(***************************************************************************)
(* Properties of the worker and the HTTP handlers                          *)
(***************************************************************************)
\* C13: the worker runs in a scope independent of the request: the context
\* its capture and uploads run under is never cancelled by the handler
\* returning or the client going away while the job is in flight.
C13_WorkerOutlivesRequest ==
    \A id \in DOMAIN workers :
        workers[id].pc # "done" => ~workers[id].ctxDone

\* the uploader.Upload calls made for one operation, in call order
UploadsOf(id) == SelectSeq(uploads, LAMBDA u : u.op = id)
UploadedFiles(id) == [i \in 1..Len(UploadsOf(id)) |-> UploadsOf(id)[i].file]

\* C14: a Capture failure ends the job failed with a capture-wrapped error
\* and no upload; an upload failure (archive or any screenshot) ends it
\* failed with an upload-wrapped error; a failed record holds no artefacts.
C14_FailuresWrappedNoArtefacts ==
    \A id \in DOMAIN workers :
        LET w == workers[id]
            op == ops[id]
        IN  /\ (w.pc = "done" /\ w.result.err \notin {Nil, "not returned"}) =>
                  /\ op.status = StatusFailed
                  /\ op.error = "capture: capture: navigation failed"
                  /\ UploadsOf(id) = <<>>
            /\ (w.pc = "done" /\ w.result.err = Nil
                    /\ Len(UploadsOf(id)) > w.idx) =>
                  /\ op.status = StatusFailed
                  /\ op.error \in {"upload: storage failure",
                                   "upload: screenshot 1: storage failure",
                                   "upload: screenshot 2: storage failure"}
            /\ op.status = StatusFailed =>
                  (op.artefacts = <<>> /\ w.artefacts = <<>>)

\* the archive and the first screenshot were uploaded, the second
\* screenshot's upload failed, and the failed record holds no artefact
C14_Witness ==
    \E id \in DOMAIN workers :
        /\ workers[id].pc = "done"
        /\ ops[id].status = StatusFailed
        /\ ops[id].error = "upload: screenshot 2: storage failure"
        /\ Len(UploadsOf(id)) = 3
        /\ ops[id].artefacts = <<>>

\* the object names a job with these screenshots uploads when nothing fails
ExpectedFiles(shots) ==
    <<"capture.har">> \o
    [i \in 1..Len(shots) |->
        CASE i = 1 -> "screenshot_01_" \o shots[i] \o ".png"
          [] i = 2 -> "screenshot_02_" \o shots[i] \o ".png"
          [] i = 3 -> "screenshot_03_" \o shots[i] \o ".png"
          [] OTHER -> "screenshot_04_" \o shots[i] \o ".png"]

WorkerCaptureOptions ==
    {[url |-> "http://a", navigationTimeout |-> 10, totalTimeout |-> 30,
      screenshots |-> b] : b \in BOOLEAN}

InitWorker == InitStore

\* go Run(ctx, WorkerOptions{OperationID: id, ...})
WorkerStart ==
    \E id \in CallIds \ DOMAIN workers, o \in WorkerCaptureOptions :
        /\ workers' = workers @@
               (id :> [pc |-> "start", ctxDone |-> FALSE, opts |-> o,
                       result |-> NoOutcome, idx |-> 0, artefacts |-> <<>>])
        /\ UNCHANGED <<storeVars, uploads, httpResp, captureVars>>

NextWorker ==
    \/ StoreCreate
    \/ WorkerStart
    \/ RunMarkRunning
    \/ RunCapture
    \/ RunUpload
    \/ RunMarkComplete

SpecWorker == InitWorker /\ [][NextWorker]_vars

\* the worker of id returned from Run straight after MarkRunning
StoppedAtMarkRunning(id) ==
    workers[id].pc = "done" /\ workers[id].result = NoOutcome

\* C16: when the worker's markRunning fails on an unknown id the worker stops
\* there: the step changes no stored operation, and the worker never
\* captures, uploads or calls the store again.
C16_UnknownIdStopsSilently ==
    /\ [](\A id \in DOMAIN workers :
            StoppedAtMarkRunning(id) =>
                /\ UploadsOf(id) = <<>>
                /\ id \in DOMAIN ops => ops[id].status = StatusPending)
    /\ [][\A id \in DOMAIN workers :
            (workers[id].pc = "start" /\ workers'[id].pc # "start"
                /\ id \notin DOMAIN ops) =>
                /\ StoppedAtMarkRunning(id)'
                /\ ops' = ops
                /\ uploads' = uploads
                /\ lastCall' = [op |-> "markRunning", id |-> id,
                                err |-> ErrNotFound]]_vars
    /\ [][\A id \in DOMAIN workers :
            StoppedAtMarkRunning(id) =>
                /\ workers'[id] = workers[id]
                /\ lastCall'.id = id => lastCall'.op \in {"create", lastCall.op}]_vars

\* a worker was run for an id the store never issued and has stopped, while
\* another operation exists untouched
C16_Witness ==
    /\ 0 \in DOMAIN workers
    /\ StoppedAtMarkRunning(0)
    /\ 0 \notin DOMAIN ops
    /\ ops # <<>>

(***************************************************************************)
(* Properties of the HTTP handlers                                         *)
(***************************************************************************)
\* the last exchange was a POST /captures
IsPost(resp) == "req" \in DOMAIN resp

\* a body with no (or an empty) url, or a timeout that is given and is not a
\* duration
InvalidCreate(req) ==
    \/ req.url = ""
    \/ req.navigation_timeout \notin {"", "5s", "1m"}
    \/ req.total_timeout \notin {"", "5s", "1m"}

ValidCreate(req) == req.bodyOK /\ ~InvalidCreate(req)

\* C17: POST /captures with a missing or empty url, or a navigation_timeout
\* or total_timeout that is not a duration, answers 400 with an error
\* field, creates no operation and starts no worker.
C17_InvalidCreateRejected ==
    /\ []((IsPost(httpResp) /\ InvalidCreate(httpResp.req)) =>
            /\ httpResp.status = 400
            /\ "error" \in DOMAIN httpResp
            /\ httpResp.error # "")
    /\ [][(IsPost(httpResp') /\ InvalidCreate(httpResp'.req)
                /\ httpResp' # httpResp) =>
            (ops' = ops /\ workers' = workers)]_vars

\* a POST whose url is missing was answered 400
C17_Witness ==
    /\ IsPost(httpResp)
    /\ httpResp.req.bodyOK
    /\ httpResp.req.url = ""
    /\ httpResp.status = 400

IsGetStep ==
    /\ lastCall'.op = "get"
    /\ httpResp'.status \in {200, 404}
    /\ (lastCall' # lastCall \/ httpResp' # httpResp)

\* C19: GET /captures/{id} answers 404 with an error field for an id never
\* created, and 200 with the operation's current record for a created id,
\* whatever the operation's status.
C19_GetAnswers ==
    /\ [][IsGetStep =>
            LET id == lastCall'.id IN
            /\ id \notin DOMAIN ops =>
                  /\ httpResp'.status = 404
                  /\ "error" \in DOMAIN httpResp'
            /\ id \in DOMAIN ops =>
                  httpResp' = [status |-> 200, op |-> ops[id]]]_vars
    /\ [][(lastCall'.op = "get" /\ lastCall' # lastCall) => IsGetStep]_vars

\* a GET was answered 200 with a record that is running
C19_Witness ==
    /\ lastCall.op = "get"
    /\ httpResp.status = 200
    /\ httpResp.op.status = StatusRunning
    /\ httpResp.op = ops[lastCall.id]

(***************************************************************************)
(* package capture, har.go: timing reconstruction                          *)
(***************************************************************************)
\* network.ResourceTiming: millisecond offsets relative to requestTime, -1
\* for a phase that did not occur
Offsets == -1..MaxOffset
ResourceTimings ==
    [present : {TRUE},
     dnsStart : Offsets, dnsEnd : Offsets,
     connectStart : Offsets, connectEnd : Offsets,
     sslStart : Offsets, sslEnd : Offsets,
     sendStart : Offsets, sendEnd : Offsets,
     receiveHeadersEnd : Offsets]
TimingInputs == {NoTiming} \cup ResourceTimings

\* phaseOrBlocked that gives up only when both offsets are negative
phaseOrBlocked_Both(start, end) ==
    IF start < 0 /\ end < 0 THEN -1 ELSE end - start

\* phaseOrBlocked
phaseOrBlocked(start, end) ==
    IF start < 0 \/ end < 0 THEN -1 ELSE end - start

\* buildTimings; the fields the nil branch's literal leaves out hold Go's
\* zero value
buildTimings(t) ==
    IF ~t.present
    THEN [blocked |-> 0, dns |-> 0, connect |-> 0, ssl |-> 0,
          send |-> -1, wait |-> -1, receive |-> -1]
    ELSE [blocked |-> -1,
          dns |-> phaseOrBlocked(t.dnsStart, t.dnsEnd),
          connect |-> phaseOrBlocked(t.connectStart, t.connectEnd),
          ssl |-> phaseOrBlocked(t.sslStart, t.sslEnd),
          send |-> phaseOrBlocked(t.sendStart, t.sendEnd),
          wait |-> IF t.sendEnd >= 0 /\ t.receiveHeadersEnd >= 0
                   THEN t.receiveHeadersEnd - t.sendEnd ELSE -1,
          receive |-> -1]

\* totalTime: the sum over Blocked, DNS, Connect, Send, Wait, Receive (the
\* slice the loop ranges over has no Ssl) of the values that are > 0.
totalTime(t) ==
    LET pos(v) == IF v > 0 THEN v ELSE 0 IN
    pos(t.blocked) + pos(t.dns) + pos(t.connect) + pos(t.send) + pos(t.wait)
        + pos(t.receive)

(***************************************************************************)
(* SpecTimings: buildEntry's call of buildTimings on one response, then    *)
(* of totalTime on the timings built                                       *)
(***************************************************************************)
InitTimings == InitStore

\* buildEntry: Timings: buildTimings(resp.Response.Timing)
BuildTimings ==
    /\ harOut = NotBuilt
    /\ \E t \in TimingInputs :
        /\ harIn' = t
        /\ harOut' = buildTimings(t)
    /\ UNCHANGED <<storeVars, serverVars, corrVars, collVars, scVars,
                   mainVars, listenerVars, envVars, hist, ttfbVars, hdrVars>>

\* buildEntry: entry.Time = totalTime(entry.Timings). harOut is the entry
\* under construction: its Timings fields and, once set, its Time.
SetEntryTime ==
    /\ harOut # NotBuilt
    /\ "time" \notin DOMAIN harOut
    /\ harOut' = harOut @@ [time |-> totalTime(harOut)]
    /\ UNCHANGED <<storeVars, serverVars, corrVars, collVars, scVars,
                   mainVars, listenerVars, envVars, hist, harIn, ttfbVars,
                   hdrVars>>

NextTimings == BuildTimings \/ SetEntryTime

SpecTimings == InitTimings /\ [][NextTimings]_vars

\* C20: for every pair of offsets, phase(start, end) is -1 when start < 0 or
\* end < 0 and end - start otherwise, and the dns, connect, ssl and send
\* phases of the timings built from a response's offsets hold that value.
C20_PhaseRule ==
    (harOut # NotBuilt /\ harIn.present) =>
        LET phase(a, b) == IF a < 0 \/ b < 0 THEN -1 ELSE b - a IN
        /\ harOut.dns = phase(harIn.dnsStart, harIn.dnsEnd)
        /\ harOut.connect = phase(harIn.connectStart, harIn.connectEnd)
        /\ harOut.ssl = phase(harIn.sslStart, harIn.sslEnd)
        /\ harOut.send = phase(harIn.sendStart, harIn.sendEnd)

\* timings built from a response with a dns phase of 1 ms, no ssl phase,
\* a connect phase with only its start and a send phase with only its end
C20_Witness ==
    /\ harIn.present
    /\ harOut # NotBuilt
    /\ harIn.dnsStart = 0 /\ harIn.dnsEnd = 1 /\ harOut.dns = 1
    /\ harIn.sslStart = -1 /\ harIn.sslEnd = -1 /\ harOut.ssl = -1
    /\ harIn.connectStart = 0 /\ harIn.connectEnd = -1 /\ harOut.connect = -1
    /\ harIn.sendStart = -1 /\ harIn.sendEnd = 1 /\ harOut.send = -1

\* C21: the total time of an entry is the sum of those of its seven phase
\* durations (blocked, dns, connect, ssl, send, wait, receive) that are
\* non-negative; an absent phase (-1) adds nothing.
C21_TimeSumsAllPhases ==
    (harOut # NotBuilt /\ "time" \in DOMAIN harOut) =>
        LET nn(v) == IF v >= 0 THEN v ELSE 0 IN
        harOut.time = nn(harOut.blocked) + nn(harOut.dns) + nn(harOut.connect)
                        + nn(harOut.ssl) + nn(harOut.send) + nn(harOut.wait)
                        + nn(harOut.receive)

(***************************************************************************)
(* package capture: extractTTFB                                            *)
(***************************************************************************)
\* time.Millisecond, in nanoseconds (the unit of time.Duration)
Millisecond == 1000000

\* what extractTTFB reads of a completedEntry: request.resourceType and
\* response.Response.Timing (nil, or its ReceiveHeadersStart offset in ms)
TTFBTimings == {NoTiming} \cup [present : {TRUE}, receiveHeadersStart : Offsets]
TTFBEntries == [resourceType : ResourceTypes, timing : TTFBTimings]
EntryLists == UNION {[1..n -> TTFBEntries] : n \in 0..MaxEntries}

extractTTFB_AnyType(es) ==
    IF es = <<>> THEN 0
    ELSE LET t == Head(es).timing IN
         IF ~t.present \/ t.receiveHeadersStart < 0 THEN 0
         ELSE t.receiveHeadersStart * Millisecond

\* extractTTFB: skip the entries that are not documents; the first document
\* decides: 0 if it has no timing or a negative ReceiveHeadersStart, else
\* time.Duration(ReceiveHeadersStart * float64(time.Millisecond)); 0 if the
\* loop ends without a document.
RECURSIVE extractTTFB(_)
extractTTFB(es) ==
    IF es = <<>> THEN 0
    ELSE IF Head(es).resourceType # ResourceTypeDocument
         THEN extractTTFB(Tail(es))
    ELSE LET t == Head(es).timing IN
         IF ~t.present \/ t.receiveHeadersStart < 0 THEN 0
         ELSE t.receiveHeadersStart * Millisecond

(***************************************************************************)
(* SpecTTFB: Capture's call of extractTTFB on the collected entries        *)
(***************************************************************************)
InitTTFB == InitStore

\* Capture: TTFB: extractTTFB(entries)
ExtractTTFB ==
    /\ ttfbOut = NotBuilt
    /\ \E es \in EntryLists :
        /\ ttfbIn' = es
        /\ ttfbOut' = [built |-> TRUE, ttfb |-> extractTTFB(es)]
    /\ UNCHANGED <<storeVars, serverVars, corrVars, collVars, scVars,
                   mainVars, listenerVars, envVars, hist, harIn, harOut,
                   hdrVars>>

NextTTFB == ExtractTTFB

SpecTTFB == InitTTFB /\ [][NextTTFB]_vars

\* the positions of the document entries of a list
DocumentIndexes(es) ==
    {i \in 1..Len(es) : es[i].resourceType = ResourceTypeDocument}

\* C22: the time to first byte is the headers-received-start offset (as a
\* duration) of the first entry, in collection order, whose type is document;
\* it is zero when there is no document entry, and when that first document
\* entry has no timing or a negative headers-received-start, whatever the later
\* entries are.
C22_TTFBOfFirstDocument ==
    ttfbOut.built =>
        LET docs == DocumentIndexes(ttfbIn) IN
        IF docs = {} THEN ttfbOut.ttfb = 0
        ELSE LET first == CHOOSE i \in docs : \A j \in docs : i <= j
                 t == ttfbIn[first].timing IN
             IF ~t.present THEN ttfbOut.ttfb = 0
             ELSE IF t.receiveHeadersStart < 0 THEN ttfbOut.ttfb = 0
             ELSE ttfbOut.ttfb = t.receiveHeadersStart * Millisecond

\* a script with first byte at 0 ms, then the document at 1 ms, then a second
\* document at 0 ms: the result is 1 ms
C22_Witness ==
    /\ ttfbOut.built
    /\ Len(ttfbIn) = 3
    /\ ttfbIn[1].resourceType = "Script"
    /\ ttfbIn[1].timing.present /\ ttfbIn[1].timing.receiveHeadersStart = 0
    /\ ttfbIn[2].resourceType = ResourceTypeDocument
    /\ ttfbIn[2].timing.present /\ ttfbIn[2].timing.receiveHeadersStart = 1
    /\ ttfbIn[3].resourceType = ResourceTypeDocument
    /\ ttfbIn[3].timing.present /\ ttfbIn[3].timing.receiveHeadersStart = 0
    /\ ttfbOut.ttfb = Millisecond

(***************************************************************************)
(* package capture: redirectURL                                            *)
(***************************************************************************)
\* network.Headers: a map from header name to value. The names a server may
\* send for one header differ in capitalisation only.
HeaderNames == {"Location", "location", "LOCATION", "LoCaTiOn", "Content-Type"}
HeaderValues == {"/a", "/b"}
HeaderMaps == UNION {[ks -> HeaderValues] : ks \in SUBSET HeaderNames}

\* the keys on which redirectURL's loop returns
redirectKeys(headers) ==
    {k \in DOMAIN headers : k = "Location" \/ k = "location"}

\* redirectURL: range over the map (in Go's unspecified order) and return
\* fmt.Sprint of the value of the first key equal to "Location" or
\* "location" (a header value is a string, which Sprint leaves as it is);
\* "" after the loop. The set of the strings a call may return.
redirectURL(headers) ==
    IF redirectKeys(headers) = {} THEN {""}
    ELSE {headers[k] : k \in redirectKeys(headers)}

(***************************************************************************)
(* SpecRedirect: buildEntry's call of redirectURL on a response's headers  *)
(***************************************************************************)
InitRedirect == InitStore

\* buildEntry: RedirectURL: redirectURL(resp.Response.Headers)
RedirectURL ==
    /\ hdrOut = NotBuilt
    /\ \E h \in HeaderMaps :
        /\ hdrIn' = h
        /\ \E u \in redirectURL(h) : hdrOut' = [built |-> TRUE, url |-> u]
    /\ UNCHANGED <<storeVars, serverVars, corrVars, collVars, scVars,
                   mainVars, listenerVars, envVars, hist, harIn, harOut,
                   ttfbVars>>

NextRedirect == RedirectURL

SpecRedirect == InitRedirect /\ [][NextRedirect]_vars

\* header names compared without regard to case: the lower-case form of each
ToLower ==
    [k \in HeaderNames |->
        IF k = "Content-Type" THEN "content-type" ELSE "location"]

LocationValues(headers) ==
    {headers[k] : k \in {n \in DOMAIN headers : ToLower[n] = "location"}}

\* C23: the redirect target is the value of a header whose name is "Location"
\* in any capitalisation, and is empty only when the response has no such
\* header.
C23_LocationAnyCase ==
    hdrOut.built =>
        IF LocationValues(hdrIn) = {} THEN hdrOut.url = ""
        ELSE hdrOut.url \in LocationValues(hdrIn)

(***************************************************************************)
(* SpecSnapshot: a caller keeps the record Create or Get returned while    *)
(* the store's methods go on being called, and writes to it                *)
(***************************************************************************)
InitSnapshot == InitStore

\* op, _ := store.Create(url), the caller keeping op
SnapshotCreate ==
    \E id \in OpIds \ DOMAIN ops, url \in Urls :
        /\ ops' = Create(ops, id, url, clock)
        /\ lastCall' = [op |-> "create", id |-> id, err |-> Nil]
        /\ held' = createReturn(id)
        /\ UNCHANGED <<clock, serverVars, captureVars>>

\* op, err := store.Get(id) with err == nil, the caller keeping op
SnapshotGet ==
    \E id \in DOMAIN ops :
        /\ lastCall' = [op |-> "get", id |-> id, err |-> Get(ops, id).err]
        /\ held' = getReturn(ops, id)
        /\ UNCHANGED <<ops, clock, serverVars, captureVars>>

CallerSetStatus ==
    /\ held # NoHandle
    /\ \E st \in {StatusPending, StatusFailed} :
        LET w == writeStatus(ops, held, st) IN
        /\ ops' = w.ops
        /\ held' = w.held
    /\ UNCHANGED <<clock, lastCall, serverVars, captureVars>>

CallerSetArtefact ==
    /\ held # NoHandle
    /\ deref(ops, held).artefacts # <<>>
    /\ LET w == writeArtefact(ops, held, "edited") IN
        /\ ops' = w.ops
        /\ held' = w.held
    /\ UNCHANGED <<clock, lastCall, serverVars, captureVars>>

NextSnapshot ==
    \/ Tick
    \/ SnapshotCreate
    \/ SnapshotGet
    \/ StoreMarkRunning
    \/ StoreMarkComplete
    \/ StoreMarkFailed
    \/ CallerSetStatus
    \/ CallerSetArtefact

SpecSnapshot == InitSnapshot /\ [][NextSnapshot]_vars

MarkStep == StoreMarkRunning \/ StoreMarkComplete \/ StoreMarkFailed
CallerStep == CallerSetStatus \/ CallerSetArtefact

\* C24: a record the store has handed out (by get or by create) is a snapshot:
\* a later markRunning, markComplete or markFailed leaves every field of the
\* record the caller holds as it was, and a write of the caller to that record
\* leaves the store's records as they were.
C24_ReturnedRecordIsSnapshot ==
    [][/\ (held # NoHandle /\ MarkStep) => deref(ops', held') = deref(ops, held)
       /\ CallerStep => ops' = ops]_vars

(***************************************************************************)
(* The listener: onResponse and onRequest within a Capture run             *)
(***************************************************************************)
\* the callback has just handled a response event whose id was not pending
DropStep == corrRet' # corrRet /\ corrRet'.requestID \notin DOMAIN pending

EntriesFromCorrelations ==
    ReturnedResult =>
        /\ \A e \in Range(result.har.entries) :
              \E c \in Range(correlated) : e = buildEntry(c)
        /\ Len(result.har.entries) <= Len(correlated)

RequestStep == evSeq' = evSeq + 1 /\ corrRet' = corrRet
StoredRequest ==
    CHOOSE r \in {pending'[k] : k \in DOMAIN pending'} : r.wallTime = evSeq'

\* positions i1 < i2 < ... of sub in seq: sub is seq with elements left out
RECURSIVE IsSubSeq(_, _)
IsSubSeq(sub, seq) ==
    IF sub = <<>> THEN TRUE
    ELSE IF seq = <<>> THEN FALSE
    ELSE IF Head(sub) = Head(seq) THEN IsSubSeq(Tail(sub), Tail(seq))
    ELSE IsSubSeq(sub, Tail(seq))

MainStep == mainPc' # mainPc

\* Capture's goroutine has just left collector.wait with the run cut off and
\* screenshots on
FinalDispatchDue ==
    mainPc = "drain" /\ mainPc' = "scWait" /\ opts.screenshots /\ timedOut'

\* the task Capture itself dispatched on leaving wait: the last one added
\* before sc.wait was called
FinalTask == Cardinality(hist.beforeWait)

\* the goroutine of the final capture has just finished
FinalTaskFinishes ==
    /\ opts.screenshots /\ timedOut /\ mainPc = "scWait"
    /\ tasks[FinalTask].st = "running"
    /\ tasks'[FinalTask].st # "running"

\* C26: with screenshots on and the run cut off (timedOut true after wait),
\* Capture dispatches exactly one screenshot capture of its own, on leaving
\* the collector's wait and at no other point; that capture finishes while
\* the browser context is still alive and before Capture returns, and if it
\* succeeded its screenshot is in the Result exactly once.
C26_FinalScreenshotAwaited ==
    /\ [][FinalTaskFinishes => ~totalExpired]_vars
    /\ [][MainStep =>
            IF FinalDispatchDue
            THEN tasks' = Append(tasks, [stage |-> StageNetworkIdle,
                                         st |-> "running"])
            ELSE tasks' = tasks]_vars
    /\ []((opts.screenshots /\ timedOut
                /\ (mainPc \in {"scSort", "scReturn"} \/ ReturnedResult)) =>
            /\ FinalTask \in 1..Len(tasks)
            /\ tasks[FinalTask].stage = StageNetworkIdle
            /\ tasks[FinalTask].st # "running")
    /\ []((opts.screenshots /\ ReturnedResult /\ result.timedOut
                /\ tasks[FinalTask].st = "done") =>
            Cardinality({i \in 1..Len(result.screenshots) :
                            result.screenshots[i].task = FinalTask}) = 1)

\* the tasks dispatched for a stage
TasksOfStage(stage) == {i \in 1..Len(tasks) : tasks[i].stage = stage}

\* C27: in one run at most one screenshot task is dispatched per lifecycle
\* stage and at most 4 in all, and the Result never holds two screenshots
\* with the same stage, whatever lifecycle events arrive.
C27_OneTaskPerStage ==
    /\ \A stage \in LifecycleNames : Cardinality(TasksOfStage(stage)) <= 1
    /\ Len(tasks) <= 4
    /\ ReturnedResult =>
          \A i, j \in 1..Len(result.screenshots) :
              result.screenshots[i].stage = result.screenshots[j].stage
                  => i = j

(***************************************************************************)
(* The correlator: one pending request per id                              *)
(***************************************************************************)
\* an addRequest / a correlate call has just returned
AddStep == evSeq' = evSeq + 1 /\ corrRet' = corrRet
CorrelateStep == evSeq' = evSeq + 1 /\ corrRet'.seq = evSeq'

\* C28: the correlator holds one pending request per id, the last one added:
\* addRequest puts its request (the one stamped with this call) under its id,
\* replacing a pending one, and leaves the other ids alone; a correlate for a
\* pending id returns the request held for it, the most recently added, and
\* the id is no longer pending.
C28_LastAddWins ==
    /\ [](\A id \in DOMAIN pending :
            pending[id].requestID = id /\ pending[id].wallTime <= evSeq)
    /\ [][AddStep =>
            \E id \in ReqIds :
                /\ DOMAIN pending' = DOMAIN pending \cup {id}
                /\ pending'[id].requestID = id
                /\ pending'[id].wallTime = evSeq'
                /\ \A o \in DOMAIN pending \ {id} : pending'[o] = pending[o]]_vars
    /\ [][(CorrelateStep /\ corrRet'.requestID \in DOMAIN pending) =>
            /\ corrRet'.ok
            /\ corrRet'.entry.request = pending[corrRet'.requestID]
            /\ corrRet'.requestID \notin DOMAIN pending'
            /\ \A o \in DOMAIN pending' : pending'[o] = pending[o]]_vars

\* two addRequest calls and no correlate yet, both for r1: one request is
\* pending for it, the second one added
C28_Witness ==
    /\ evSeq = 2
    /\ corrRet.seq = 0
    /\ DOMAIN pending = {"r1"}
    /\ pending["r1"].wallTime = 2

(***************************************************************************)
(* SpecWorkerFair: SpecWorker with every call Run makes returning          *)
(***************************************************************************)
\* Run is straight-line code in a goroutine of its own: once capture.Capture
\* and each Upload return (the claim's proviso), the next statement runs.
SpecWorkerFair ==
    /\ SpecWorker
    /\ WF_vars(RunMarkRunning)
    /\ WF_vars(RunCapture)
    /\ WF_vars(RunUpload)
    /\ WF_vars(RunMarkComplete)

\* the worker of id is past a successful MarkRunning and has not returned
Working(id) == id \in DOMAIN workers /\ workers[id].pc \in {"capture", "upload"}

TerminalCalls == {"markComplete", "markFailed"}

\* C30: a Run whose markRunning succeeded makes exactly one terminal store
\* call, markComplete or markFailed: none while it is still capturing or
\* uploading, one (which succeeds and takes the operation from running to
\* complete or failed) on the step it returns with, none afterwards; and,
\* capture and uploads returning, it does return, so the operation leaves
\* running.
C30_OneTerminalCall ==
    /\ [][\A id \in DOMAIN workers :
            /\ (Working(id) /\ workers'[id].pc = "done") =>
                  /\ ops[id].status = StatusRunning
                  /\ lastCall'.id = id
                  /\ lastCall'.op \in TerminalCalls
                  /\ lastCall'.err = Nil
                  /\ ops'[id].status =
                        IF lastCall'.op = "markComplete" THEN StatusComplete
                        ELSE StatusFailed
            /\ (Working(id) /\ workers'[id].pc # "done") =>
                  ops'[id] = ops[id]
            /\ workers[id].pc = "done" =>
                  /\ workers'[id] = workers[id]
                  /\ id \in DOMAIN ops => ops'[id] = ops[id]]_vars
    /\ \A id \in CallIds :
          Working(id) ~>
              (/\ id \in DOMAIN workers /\ id \in DOMAIN ops
               /\ workers[id].pc = "done"
               /\ ops[id].status \in {StatusComplete, StatusFailed})

\* a Run whose capture succeeded and whose upload failed has returned: its one
\* terminal call was markFailed
C30_Witness ==
    \E id \in DOMAIN workers :
        /\ workers[id].pc = "done"
        /\ workers[id].result # NoOutcome
        /\ workers[id].result.err = Nil
        /\ ops[id].status = StatusFailed
        /\ lastCall = [op |-> "markFailed", id |-> id, err |-> Nil]

(***************************************************************************)
(* Screenshots: the list sc.wait returns against late dispatches           *)
(***************************************************************************)
\* sc.wait is past wg.Wait: sorting sc.results or about to return it
WaitPastWg == mainPc \in {"scSort", "scReturn"}

\* C31: the screenshot list sc.wait returns is final: from the moment its
\* wg.Wait has returned no capture task appends to sc.results, after the sort
\* the list is not touched again before it is returned, and the list placed
\* in the Result holds screenshots only of tasks dispatched before sc.wait was
\* called, never of a task the listener dispatched on a later lifecycle
\* event.
C31_ScreenshotListFinal ==
    /\ [][WaitPastWg => Len(scResults') = Len(scResults)]_vars
    /\ [][mainPc = "scReturn" => scResults' = scResults]_vars
    /\ [](ReturnedResult =>
            \A sh \in Range(result.screenshots) : sh.task \in hist.beforeWait)

====
